---- MODULE Spec2Model ----
(***************************************************************************)
(* Tesseract viewer: the 4D geometry kernel (src/src/core/hyper.ts) and    *)
(* the event handlers and frame loop that drive it (src/src/main.ts).      *)
(*                                                                         *)
(* Numbers.  A JavaScript number is modelled by its exact real value in    *)
(* the field Q(sqrt 2), or by one of the three IEEE specials NaN,          *)
(* +Infinity, -Infinity.  A finite number is the record                    *)
(*     [k |-> "fin", n, r, d]   standing for   (n + r*sqrt(2)) / d         *)
(* kept in lowest terms with d > 0, so two finite numbers are equal        *)
(* exactly when their records are.  The sqrt(2) part is what Math.hypot    *)
(* yields for a diagonal move.  Rounding of the 53-bit mantissa is not     *)
(* modelled: every such result is the exact one.  The range of the         *)
(* exponent is: next to 0 lie the subnormal numbers m * Number.MIN_VALUE   *)
(* (m * 2^-1074), the records [k |-> "tiny", n |-> m], on which arithmetic *)
(* rounds to the nearest multiple, ties to even, so that MIN_VALUE / 2 is  *)
(* 0.  Every "fin" number other than 0 is taken to be of ordinary          *)
(* magnitude: it absorbs a tiny number added to it, and divided by a tiny  *)
(* number it overflows to an infinity.  The sign of a zero is not kept.    *)
(*                                                                         *)
(* Angles.  Math.cos and Math.sin are exact on the angles                  *)
(*     q * (pi/2) + p * atan(4/3)        (q, p integers)                   *)
(* where cos(atan(4/3)) = 3/5 and sin(atan(4/3)) = 4/5.  An angle is the   *)
(* record [k, q, p].  Pointer coordinates are counted in steps of          *)
(* atan(4/3)/sensitivity pixels, so that a pointer delta of p steps times  *)
(* `sensitivity` is the angle p * atan(4/3).                               *)
(*                                                                         *)
(* Arrays are 0-based functions, as in the source.  The render buffer      *)
(* `positions` and the orbit camera (orbitKeys, orbitYaw, orbitPitch) are  *)
(* written by animate and read by no handler; they are not part of the     *)
(* state below.                                                            *)
(***************************************************************************)
EXTENDS Integers, Sequences, FiniteSets, TLC

\* ------------------------------------------------------------------------
\* Exact arithmetic on JavaScript numbers
\* ------------------------------------------------------------------------

Abs(x) == IF x < 0 THEN -x ELSE x

RECURSIVE GCD(_, _)
GCD(a, b) == IF b = 0 THEN a ELSE GCD(b, a % b)

NaN == [k |-> "nan", n |-> 0, r |-> 0, d |-> 1]

PInf == [k |-> "pinf", n |-> 0, r |-> 0, d |-> 1]

NInf == [k |-> "ninf", n |-> 0, r |-> 0, d |-> 1]

\* (n + r*sqrt 2)/d in lowest terms, d > 0.
Fin(n, r, d) ==
    LET g0 == GCD(GCD(Abs(n), Abs(r)), Abs(d))
        g  == IF g0 = 0 THEN 1 ELSE g0
        sg == IF d < 0 THEN -1 ELSE 1
    IN  [k |-> "fin", n |-> (sg * n) \div g, r |-> (sg * r) \div g, d |-> Abs(d) \div g]

Rat(n, d) == Fin(n, 0, d)

Zero == Rat(0, 1)

One == Rat(1, 1)

\* m * Number.MIN_VALUE
Tiny(m) == IF m = 0 THEN Zero ELSE [k |-> "tiny", n |-> m, r |-> 0, d |-> 1]

\* Number.isFinite
IsFinite(x) == x.k \in {"fin", "tiny"}

\* Sign of n - r*sqrt(2) for integers n > 0, r > 0 (never 0: sqrt 2 is irrational)
RECURSIVE CmpSqrt2(_, _)
CmpSqrt2(n, r) ==
    IF n >= 2 * r THEN 1
    ELSE IF n <= r THEN -1
    ELSE -CmpSqrt2(2 * r - n, n - r)

\* Sign of a number: -1, 0, 1; of NaN, 0.
Sgn(x) ==
    CASE x.k = "pinf" -> 1
      [] x.k = "ninf" -> -1
      [] x.k = "nan"  -> 0
      [] OTHER ->
           IF x.n = 0 /\ x.r = 0 THEN 0
           ELSE IF x.n >= 0 /\ x.r >= 0 THEN 1
           ELSE IF x.n <= 0 /\ x.r <= 0 THEN -1
           ELSE IF x.n > 0 THEN CmpSqrt2(x.n, -x.r)
           ELSE -CmpSqrt2(-x.n, x.r)

\* unary minus
Neg(x) ==
    CASE x.k = "nan"  -> NaN
      [] x.k = "pinf" -> NInf
      [] x.k = "ninf" -> PInf
      [] OTHER -> [x EXCEPT !.n = -x.n, !.r = -x.r]

\* x + y
Add(x, y) ==
    IF x.k = "nan" \/ y.k = "nan" THEN NaN
    ELSE IF x.k = "fin" /\ y.k = "fin" THEN
        LET l == (x.d \div GCD(x.d, y.d)) * y.d
        IN  Fin(x.n * (l \div x.d) + y.n * (l \div y.d),
                x.r * (l \div x.d) + y.r * (l \div y.d), l)
    ELSE IF x.k = "tiny" /\ y.k = "tiny" THEN Tiny(x.n + y.n)
    ELSE IF x.k = "tiny" /\ y.k = "fin" THEN (IF y = Zero THEN x ELSE y)
    ELSE IF x.k = "fin" /\ y.k = "tiny" THEN (IF x = Zero THEN y ELSE x)
    ELSE IF IsFinite(x) THEN y
    ELSE IF IsFinite(y) THEN x
    ELSE IF x.k = y.k THEN x
    ELSE NaN

\* x - y
Sub(x, y) == Add(x, Neg(y))

\* x * y for "fin" numbers
MulFin(x, y) == Fin(x.n * y.n + 2 * x.r * y.r, x.n * y.r + x.r * y.n, x.d * y.d)

\* x / y for "fin" numbers, y not 0
DivFin(x, y) == MulFin(x, Fin(y.d * y.n, -(y.d * y.r), y.n * y.n - 2 * y.r * y.r))

\* the integer nearest to a "fin" number, the even one of two equally near
RoundToInt(y) ==
    LET a == (y.n * 1000 + y.r * 1414) \div (y.d * 1000)
    IN  CHOOSE i \in (a - 2)..(a + 2) :
            LET lo == Sgn(Add(y, Rat(1 - 2 * i, 2)))
                hi == Sgn(Add(Rat(2 * i + 1, 2), Neg(y)))
            IN  \/ lo > 0 /\ hi > 0
                \/ lo = 0 /\ i % 2 = 0
                \/ hi = 0 /\ i % 2 = 0

\* x * y
Mul(x, y) ==
    IF x.k = "nan" \/ y.k = "nan" THEN NaN
    ELSE IF x.k = "fin" /\ y.k = "fin" THEN MulFin(x, y)
    ELSE IF x.k = "tiny" /\ y.k = "tiny" THEN Zero
    ELSE IF x.k = "tiny" /\ y.k = "fin" THEN Tiny(RoundToInt(MulFin(Rat(x.n, 1), y)))
    ELSE IF x.k = "fin" /\ y.k = "tiny" THEN Tiny(RoundToInt(MulFin(x, Rat(y.n, 1))))
    ELSE IF Sgn(x) * Sgn(y) = 0 THEN NaN
    ELSE IF Sgn(x) * Sgn(y) > 0 THEN PInf
    ELSE NInf

\* x / y
Div(x, y) ==
    IF x.k = "nan" \/ y.k = "nan" THEN NaN
    ELSE IF IsFinite(x) /\ IsFinite(y) THEN
        IF Sgn(y) = 0
        THEN (IF Sgn(x) = 0 THEN NaN ELSE IF Sgn(x) > 0 THEN PInf ELSE NInf)
        ELSE IF x.k = "fin" /\ y.k = "fin" THEN DivFin(x, y)
        ELSE IF x.k = "tiny" /\ y.k = "tiny" THEN Rat(x.n, y.n)
        ELSE IF x.k = "tiny" THEN Tiny(RoundToInt(DivFin(Rat(x.n, 1), y)))
        ELSE IF Sgn(x) = 0 THEN Zero
        ELSE IF Sgn(x) * Sgn(y) > 0 THEN PInf
        ELSE NInf
    ELSE IF IsFinite(x) THEN Zero
    ELSE IF IsFinite(y) THEN (IF Sgn(y) >= 0 THEN x ELSE Neg(x))
    ELSE NaN

\* x < y (false when either is NaN)
Lt(x, y) ==
    /\ x.k # "nan"
    /\ y.k # "nan"
    /\ \/ x.k = "ninf" /\ y.k # "ninf"
       \/ y.k = "pinf" /\ x.k # "pinf"
       \/ IsFinite(x) /\ IsFinite(y) /\ Sgn(Sub(x, y)) < 0

\* x > y
Gt(x, y) == Lt(y, x)

\* x !== y
StrictNeq(x, y) == x.k = "nan" \/ y.k = "nan" \/ x # y

\* Math.min(x, y)
MathMin(x, y) ==
    IF x.k = "nan" \/ y.k = "nan" THEN NaN
    ELSE IF Lt(y, x) THEN y ELSE x

RECURSIVE ISqrtIn(_, _, _)
ISqrtIn(m, lo, hi) ==
    IF lo >= hi THEN lo
    ELSE LET mid == (lo + hi + 1) \div 2
         IN  IF mid * mid <= m THEN ISqrtIn(m, mid, hi) ELSE ISqrtIn(m, lo, mid - 1)

\* floor of the square root of a natural number
ISqrt(m) == ISqrtIn(m, 0, IF m < 46340 THEN m ELSE 46340)

\* Math.sqrt of a "fin" x >= 0: exact where the root is rational or a
\* rational multiple of sqrt 2, rounded down to three decimals elsewhere.
MathSqrt(x) ==
    LET q  == IF x.r = 0 THEN x ELSE Fin(x.n * 1000 + x.r * 1414, 0, x.d * 1000)
        m  == q.n * q.d
        s  == ISqrt(m)
        s2 == ISqrt(2 * m)
    IN  IF x.r = 0 /\ s * s = m THEN Fin(s, 0, q.d)
        ELSE IF x.r = 0 /\ s2 * s2 = 2 * m THEN Fin(0, s2, 2 * q.d)
        ELSE Fin(ISqrt(m * 1000 * 1000), 0, q.d * 1000)

\* Math.hypot(a, b, c, d)
MathHypot(a, b, c, d) ==
    IF \E x \in {a, b, c, d} : x.k \in {"pinf", "ninf"} THEN PInf
    ELSE IF \E x \in {a, b, c, d} : x.k = "nan" THEN NaN
    ELSE IF \A x \in {a, b, c, d} : x.k = "tiny" \/ x = Zero THEN
        Tiny(RoundToInt(MathSqrt(Rat(a.n * a.n + b.n * b.n + c.n * c.n + d.n * d.n, 1))))
    ELSE MathSqrt(Add(Add(Add(Mul(a, a), Mul(b, b)), Mul(c, c)), Mul(d, d)))

\* ------------------------------------------------------------------------
\* Angles and trigonometry
\* ------------------------------------------------------------------------

Angle(q, p) == [k |-> "fin", q |-> q, p |-> p]

\* (3 + 4i)^p for p >= 0, as <<real part, imaginary part, 5^p>>
RECURSIVE CisPow(_)
CisPow(p) ==
    IF p = 0 THEN <<1, 0, 1>>
    ELSE LET c == CisPow(p - 1)
         IN  <<3 * c[1] - 4 * c[2], 4 * c[1] + 3 * c[2], 5 * c[3]>>

\* <<cos, sin>> of a finite angle q*(pi/2) + p*atan(4/3)
Cis(angle) ==
    LET c  == CisPow(Abs(angle.p))
        re == Rat(c[1], c[3])
        im == Rat(IF angle.p < 0 THEN -c[2] ELSE c[2], c[3])
        t  == angle.q % 4
    IN  CASE t = 0 -> <<re, im>>
          [] t = 1 -> <<Neg(im), re>>
          [] t = 2 -> <<Neg(re), Neg(im)>>
          [] OTHER -> <<im, Neg(re)>>

\* Math.cos
MathCos(angle) == IF angle.k = "fin" THEN Cis(angle)[1] ELSE NaN

\* Math.sin
MathSin(angle) == IF angle.k = "fin" THEN Cis(angle)[2] ELSE NaN

\* ------------------------------------------------------------------------
\* src/src/core/hyper.ts
\* ------------------------------------------------------------------------

\* An array as a value: its entries are computed once, when it is built, and
\* not again at each read.
ArrayValue(f) == CHOOSE arr \in {f} : arr = f

Vec4Of(x, y, z, w) ==
    [k \in 0..3 |-> IF k = 0 THEN x ELSE IF k = 1 THEN y ELSE IF k = 2 THEN z ELSE w]

\* a JavaScript array built by push, as a 0-based function
ArrayOf(seq) == [i \in 0..(Len(seq) - 1) |-> seq[i + 1]]

Length(arr) == Cardinality(DOMAIN arr)

\* the four nested for-of loops over [-s, s]; each level pushes in order
PushW(s, x, y, z, acc) ==
    Append(Append(acc, Vec4Of(x, y, z, Neg(s))), Vec4Of(x, y, z, s))

PushZ(s, x, y, acc) == PushW(s, x, y, s, PushW(s, x, y, Neg(s), acc))

PushY(s, x, acc) == PushZ(s, x, s, PushZ(s, x, Neg(s), acc))

generateTesseractVertices_NoHalf(size) ==
    LET s == size
    IN  ArrayOf(PushY(s, s, PushY(s, Neg(s), <<>>)))

generateTesseractVertices(size) ==
    LET s == Div(size, Rat(2, 1))
    IN  ArrayOf(PushY(s, s, PushY(s, Neg(s), <<>>)))

DiffCount_ThreeAxes(v1, v2) == Cardinality({k \in 0..2 : StrictNeq(v1[k], v2[k])})

\* the inner loop of generateTesseractEdges: how many k have v1[k] !== v2[k]
DiffCount(v1, v2) == Cardinality({k \in 0..3 : StrictNeq(v1[k], v2[k])})

\* the j loop of generateTesseractEdges for one i: the pairs [i, j], j = i+1 ..,
\* in order, that pass the test diffCount === 1
EdgeRow(vertices, i) ==
    LET passes(pair) == DiffCount(vertices[pair[1]], vertices[pair[2]]) = 1
    IN  SelectSeq([n \in 1..(Length(vertices) - 1 - i) |-> <<i, i + n>>], passes)

\* the i loop of generateTesseractEdges, from i on
RECURSIVE EdgeLoop(_, _)
EdgeLoop(vertices, i) ==
    IF i < Length(vertices) THEN EdgeRow(vertices, i) \o EdgeLoop(vertices, i + 1)
    ELSE <<>>

generateTesseractEdges(vertices) == ArrayOf(EdgeLoop(vertices, 0))

mat4Identity == [x \in 0..15 |-> IF x \div 4 = x % 4 THEN One ELSE Zero]

mat4Multiply(a, b) ==
    ArrayValue([x \in 0..15 |->
        LET r == x \div 4
            c == x % 4
        IN  Add(Add(Add(Add(Zero, Mul(a[r*4 + 0], b[0*4 + c])),
                            Mul(a[r*4 + 1], b[1*4 + c])),
                        Mul(a[r*4 + 2], b[2*4 + c])),
                Mul(a[r*4 + 3], b[3*4 + c]))])

\* R[idx] = v on a JavaScript array: an index outside the array adds an entry
Store(R, idx, v) == [x \in (DOMAIN R) \cup {idx} |-> IF x = idx THEN v ELSE R[x]]

rotationMatrix4_SameSign(i, j, angle) ==
    LET c == MathCos(angle)
        s == MathSin(angle)
    IN  ArrayValue(Store(Store(Store(Store(mat4Identity, i*4 + i, c), i*4 + j, Neg(s)),
                               j*4 + i, Neg(s)), j*4 + j, c))

rotationMatrix4_Transposed(i, j, angle) ==
    LET c == MathCos(angle)
        s == MathSin(angle)
    IN  ArrayValue(Store(Store(Store(Store(mat4Identity, i*4 + i, c), i*4 + j, s),
                               j*4 + i, Neg(s)), j*4 + j, c))

rotationMatrix4(i, j, angle) ==
    LET c == MathCos(angle)
        s == MathSin(angle)
    IN  ArrayValue(Store(Store(Store(Store(mat4Identity, i*4 + i, c), i*4 + j, Neg(s)),
                               j*4 + i, s), j*4 + j, c))

applyMat4ToVec4(m, v) ==
    LET x == v[0]
        y == v[1]
        z == v[2]
        w == v[3]
        row(o) == Add(Add(Add(Mul(m[o], x), Mul(m[o + 1], y)), Mul(m[o + 2], z)),
                      Mul(m[o + 3], w))
    IN  ArrayValue(Vec4Of(row(0), row(4), row(8), row(12)))

\* ------------------------------------------------------------------------
\* src/src/main.ts: state
\* ------------------------------------------------------------------------

VARIABLES
    camera4D,      \* let camera4D: Vec4
    rotationMat,   \* let rotationMat: Mat4
    dragging,      \* let dragging
    lastX,         \* let lastX   (pointer steps)
    lastY,         \* let lastY   (pointer steps)
    keyState,      \* const keyState = { w, a, s, d }
    lastTime,      \* let lastTime (milliseconds)
    compositions,  \* history: drags folded into rotationMat since startup or reset
    frames,        \* history: frames run since startup
    lastDrag,      \* history: the latest drag since startup or reset
    probe,         \* a call of the topology generator and its result
    rot            \* a call of rotationMatrix4 / applyMat4ToVec4 and its result

vars == <<camera4D, rotationMat, dragging, lastX, lastY, keyState, lastTime,
          compositions, frames, lastDrag, probe, rot>>

ZeroVec == Vec4Of(Zero, Zero, Zero, Zero)

\* const moveSpeed = 1.5
moveSpeed == Rat(3, 2)

\* the clamp of dt, 0.05 s
MaxDt == Rat(1, 20)

\* the threshold 1e-6 on the length of the movement vector
MinLen == Rat(1, 1000000)

NoKeys == [w |-> FALSE, a |-> FALSE, s |-> FALSE, d |-> FALSE]

NoDrag == [valid |-> FALSE, from |-> mat4Identity, dx |-> Zero, dy |-> Zero, shift |-> FALSE]

NoProbe == [fn |-> "none", size |-> Zero, vertices |-> <<>>, edges |-> <<>>]

NoRot == [fn |-> "none", i |-> 0, j |-> 0, angle |-> Angle(0, 0), outcome |-> "none",
          out |-> mat4Identity, v |-> ZeroVec, image |-> ZeroVec]

\* The state once the module has been evaluated: the first animate() call
\* (main.ts line 284) has run with no key down and has set lastTime.
Init ==
    /\ camera4D = ZeroVec
    /\ rotationMat = mat4Identity
    /\ dragging = FALSE
    /\ lastX = Zero
    /\ lastY = Zero
    /\ keyState = NoKeys
    /\ lastTime = Zero
    /\ compositions = 0
    /\ frames = 0
    /\ lastDrag = NoDrag
    /\ probe = NoProbe
    /\ rot = NoRot

\* ------------------------------------------------------------------------
\* src/src/main.ts: handlers
\* ------------------------------------------------------------------------

\* deltaX * sensitivity: a delta of p pointer steps (pointer coordinates are
\* whole steps) is the angle p*atan(4/3); a subnormal delta times sensitivity
\* underflows to the angle 0; a non-finite delta gives a non-finite angle
MouseAngle(delta) ==
    IF delta.k = "fin" THEN Angle(0, delta.n)
    ELSE IF delta.k = "tiny" THEN Angle(0, 0)
    ELSE [k |-> delta.k, q |-> 0, p |-> 0]

ComposeDrag_RightMultiply(r1, r2, M) == mat4Multiply(M, mat4Multiply(r2, r1))

\* combined = r2 * r1; rotationMat = combined * rotationMat
ComposeDrag(r1, r2, M) == mat4Multiply(mat4Multiply(r2, r1), M)

\* The body of applyMouseRotation on the orientation M; each const of the
\* source is bound once.
applyMouseRotation(M, deltaX, deltaY, shiftKey) ==
    LET pick(r1, r2) == ComposeDrag(r1, r2, M)
    IN  CHOOSE out \in
            { pick(r1, r2) :
                r1 \in {IF shiftKey THEN rotationMatrix4(0, 3, MouseAngle(deltaX))
                                    ELSE rotationMatrix4(0, 1, MouseAngle(deltaX))},
                r2 \in {IF shiftKey THEN rotationMatrix4(1, 3, MouseAngle(deltaY))
                                    ELSE rotationMatrix4(0, 2, MouseAngle(deltaY))} } : TRUE

PointerDown(x, y) ==
    /\ dragging' = TRUE
    /\ lastX' = x
    /\ lastY' = y
    /\ UNCHANGED <<camera4D, rotationMat, keyState, lastTime, compositions, frames,
                   lastDrag, probe, rot>>

PointerMove(x, y, shiftKey) ==
    /\ dragging
    /\ \E dx \in {Sub(x, lastX)}, dy \in {Sub(y, lastY)} :
          /\ rotationMat' = applyMouseRotation(rotationMat, dx, dy, shiftKey)
          /\ lastDrag' = [valid |-> TRUE, from |-> rotationMat, dx |-> dx, dy |-> dy,
                          shift |-> shiftKey]
    /\ lastX' = x
    /\ lastY' = y
    /\ compositions' = compositions + 1
    /\ UNCHANGED <<camera4D, dragging, keyState, lastTime, frames, probe, rot>>

PointerUp ==
    /\ dragging' = FALSE
    /\ UNCHANGED <<camera4D, rotationMat, lastX, lastY, keyState, lastTime, compositions,
                   frames, lastDrag, probe, rot>>

PointerCancel ==
    /\ dragging' = FALSE
    /\ UNCHANGED <<camera4D, rotationMat, lastX, lastY, keyState, lastTime, compositions,
                   frames, lastDrag, probe, rot>>

\* String.prototype.toLowerCase on the keys the model presses
ToLowerCase(key) ==
    CASE key = "W" -> "w"
      [] key = "A" -> "a"
      [] key = "S" -> "s"
      [] key = "D" -> "d"
      [] key = "R" -> "r"
      [] OTHER -> key

\* if (k in keyState) keyState[k] = down
SetKey(state, k, down) ==
    IF k \in DOMAIN state THEN [state EXCEPT ![k] = down] ELSE state

KeyDown(key) ==
    LET k == ToLowerCase(key)
    IN  /\ keyState' = SetKey(keyState, k, TRUE)
        /\ IF k = "r"
           THEN /\ rotationMat' = mat4Identity
                /\ compositions' = 0
                /\ lastDrag' = NoDrag
           ELSE UNCHANGED <<rotationMat, compositions, lastDrag>>
        /\ UNCHANGED <<camera4D, dragging, lastX, lastY, lastTime, frames, probe, rot>>

KeyUp(key) ==
    LET k == ToLowerCase(key)
    IN  /\ keyState' = SetKey(keyState, k, FALSE)
        /\ UNCHANGED <<camera4D, rotationMat, dragging, lastX, lastY, lastTime,
                       compositions, frames, lastDrag, probe, rot>>

\* dt = Math.min(0.05, (now - lastTime) / 1000)
FrameDt(now, last) == MathMin(MaxDt, Div(Sub(now, last), Rat(1000, 1)))

VecAdd(u, v) == ArrayValue([k \in 0..3 |-> Add(u[k], v[k])])

VecSub(u, v) == ArrayValue([k \in 0..3 |-> Sub(u[k], v[k])])

MoveScale_NoNormalize(dt, len) == Mul(moveSpeed, dt)

\* const s = (moveSpeed * dt) / len
MoveScale(dt, len) == Div(Mul(moveSpeed, dt), len)

\* camera4D = [camera4D[k] + mv[k] * s]
MovedBy(cam, mv, s) == ArrayValue([k \in 0..3 |-> Add(cam[k], Mul(mv[k], s))])

\* One frame; each const and each assignment to mv of the source is bound once.
Animate(now) ==
    /\ \E dt \in {FrameDt(now, lastTime)},
          bx \in {applyMat4ToVec4(rotationMat, Vec4Of(One, Zero, Zero, Zero))},
          bz_pos \in {applyMat4ToVec4(rotationMat, Vec4Of(Zero, Zero, One, Zero))} :
       \E bz_forward \in {[k \in 0..3 |-> Neg(bz_pos[k])]} :
       \E mv1 \in {IF keyState.w THEN VecAdd(ZeroVec, bz_forward) ELSE ZeroVec} :
       \E mv2 \in {IF keyState.s THEN VecSub(mv1, bz_forward) ELSE mv1} :
       \E mv3 \in {IF keyState.a THEN VecSub(mv2, bx) ELSE mv2} :
       \E mv \in {IF keyState.d THEN VecAdd(mv3, bx) ELSE mv3} :
       \E len \in {MathHypot(mv[0], mv[1], mv[2], mv[3])} :
          camera4D' = IF Gt(len, MinLen)
                      THEN MovedBy(camera4D, mv, MoveScale(dt, len))
                      ELSE camera4D
    /\ lastTime' = now
    /\ frames' = frames + 1
    /\ UNCHANGED <<rotationMat, dragging, lastX, lastY, keyState, compositions, lastDrag,
                   probe, rot>>

\* ------------------------------------------------------------------------
\* Environments: which events arrive, with which inputs, and how many
\* ------------------------------------------------------------------------

\* drags folded into the orientation between two resets
MaxCompositions == 2

\* frames run in one session
MaxFrames == 1

Pt(x, y) == <<Rat(x, 1), Rat(y, 1)>>

\* pointer positions (clientX, clientY), in pointer steps
PointerPositions == {Pt(0, 0), Pt(1, 0), Pt(1, 1)}

\* milliseconds between two frames (dt below its clamp)
ElapsedMs == {Rat(20, 1)}

\* e.key of the reset key
ResetKeys == {"r", "R"}

Events(positions, shiftKeys, keys, elapsed, maxDrags, maxFrames) ==
    \/ \E pos \in positions : PointerDown(pos[1], pos[2])
    \/ /\ compositions < maxDrags
       /\ \E pos \in positions, shiftKey \in shiftKeys : PointerMove(pos[1], pos[2], shiftKey)
    \/ PointerUp
    \/ PointerCancel
    \/ \E key \in keys : KeyDown(key)
    \/ \E key \in keys : KeyUp(key)
    \/ /\ frames < maxFrames
       /\ \E e \in elapsed : Animate(Add(lastTime, e))

\* Drags with and without shift, resets and frames.
Next == Events(PointerPositions, BOOLEAN, ResetKeys, ElapsedMs, MaxCompositions, MaxFrames)

Spec == Init /\ [][Next]_vars

\* drags in a session of the movement environment
MaxMoveDrags == 1

\* pointer positions of the movement environment
MovePositions == {Pt(0, 0), Pt(1, 1)}

\* e.key of the movement keys
MoveKeys == {"w", "a", "s", "d", "W"}

\* milliseconds between two frames of the movement environment (dt clamped)
MoveElapsedMs == {Rat(80, 1)}

\* Movement keys and frames, over the orientations a few plain drags give.
NextMove == Events(MovePositions, {FALSE}, MoveKeys, MoveElapsedMs, MaxMoveDrags, MaxFrames)

SpecMove == Init /\ [][NextMove]_vars

\* pointer positions of an environment that also delivers non-finite coordinates
NonFinitePositions == {Pt(0, 0), Pt(1, 1), <<NaN, Zero>>, <<Zero, PInf>>}

\* clock advances of an environment that also delivers non-finite readings
NonFiniteElapsedMs == {Rat(20, 1), NaN, PInf}

\* e.key of the keys of that environment
NonFiniteKeys == {"w", "r"}

\* Pointer coordinates and clock readings that may be NaN or infinite.
NextNonFinite ==
    Events(NonFinitePositions, {FALSE}, NonFiniteKeys, NonFiniteElapsedMs,
           MaxCompositions, MaxFrames)

SpecNonFinite == Init /\ [][NextNonFinite]_vars

\* ------------------------------------------------------------------------
\* Calls of the topology generator
\* ------------------------------------------------------------------------

\* sizes n/d with |n| <= MaxSizeNum and 1 <= d <= MaxSizeDen
MaxSizeNum == 8

MaxSizeDen == 6

\* the sizes next to 0 (MIN_VALUE and its neighbours) and the non-finite ones
EdgeSizes == {Tiny(1), Tiny(-1), Tiny(2), Tiny(3), PInf, NInf, NaN}

Sizes == {Rat(n, d) : n \in (-MaxSizeNum)..MaxSizeNum, d \in 1..MaxSizeDen} \cup EdgeSizes

CallGenerateVertices(size) ==
    /\ probe.fn = "none"
    /\ probe' = [fn |-> "vertices", size |-> size,
                 vertices |-> generateTesseractVertices(size), edges |-> <<>>]
    /\ UNCHANGED <<camera4D, rotationMat, dragging, lastX, lastY, keyState, lastTime,
                   compositions, frames, lastDrag, rot>>

CallGenerateEdges ==
    /\ probe.fn = "vertices"
    /\ probe' = [probe EXCEPT !.fn = "edges",
                              !.edges = generateTesseractEdges(probe.vertices)]
    /\ UNCHANGED <<camera4D, rotationMat, dragging, lastX, lastY, keyState, lastTime,
                   compositions, frames, lastDrag, rot>>

NextTopology ==
    \/ \E size \in Sizes : CallGenerateVertices(size)
    \/ CallGenerateEdges

SpecTopology == Init /\ [][NextTopology]_vars

\* ------------------------------------------------------------------------
\* Calls of rotationMatrix4 and applyMat4ToVec4
\* ------------------------------------------------------------------------

\* axis arguments -1 .. MaxAxisArg: the four axes and one value on either side
MaxAxisArg == 4

AxisArgs == (-1)..MaxAxisArg

\* angles q*(pi/2) + p*atan(4/3), -1 <= q <= MaxQuarterTurns, -1 <= p <= MaxAngleSteps
MaxQuarterTurns == 2

MaxAngleSteps == 1

Angles == {Angle(q, p) : q \in (-1)..MaxQuarterTurns, p \in (-1)..MaxAngleSteps}

UnitVec(axis) == [k \in 0..3 |-> IF k = axis THEN One ELSE Zero]

ProbeVectors ==
    {UnitVec(axis) : axis \in 0..3} \cup {Vec4Of(One, Rat(2, 1), Rat(-3, 1), Rat(1, 2))}

\* rotationMatrix4 has no throw statement and an array store never throws:
\* every call returns.
CallRotationMatrix4(i, j, angle) ==
    /\ rot.fn = "none"
    /\ rot' = [fn |-> "rotation", i |-> i, j |-> j, angle |-> angle,
               outcome |-> "returned", out |-> rotationMatrix4(i, j, angle),
               v |-> ZeroVec, image |-> ZeroVec]
    /\ UNCHANGED <<camera4D, rotationMat, dragging, lastX, lastY, keyState, lastTime,
                   compositions, frames, lastDrag, probe>>

CallApplyMat4ToVec4(v) ==
    /\ rot.fn = "rotation"
    /\ rot' = [rot EXCEPT !.fn = "apply", !.v = v, !.image = applyMat4ToVec4(rot.out, v)]
    /\ UNCHANGED <<camera4D, rotationMat, dragging, lastX, lastY, keyState, lastTime,
                   compositions, frames, lastDrag, probe>>

NextRotation ==
    \/ \E i \in AxisArgs, j \in AxisArgs, angle \in Angles : CallRotationMatrix4(i, j, angle)
    \/ \E v \in ProbeVectors : CallApplyMat4ToVec4(v)

SpecRotation == Init /\ [][NextRotation]_vars

\* ------------------------------------------------------------------------
\* Properties: geometry kernel
\* ------------------------------------------------------------------------

\* the number of coordinates in which two vertices differ, by value
Differing(v1, v2) == Cardinality({k \in 0..3 : v1[k] # v2[k]})

IsPair(e) == DOMAIN e = 1..2

\* 32 index pairs (i, j) with 0 <= i < j <= 15, each joining two vertices that
\* differ in exactly one coordinate, none listed twice, and every pair of
\* vertices that differ in exactly one coordinate listed
EdgesOfHypercube ==
    /\ Length(probe.edges) = 32
    /\ DOMAIN probe.edges = 0..31
    /\ \A n \in DOMAIN probe.edges :
          /\ IsPair(probe.edges[n])
          /\ probe.edges[n][1] \in 0..15
          /\ probe.edges[n][2] \in 0..15
          /\ probe.edges[n][1] < probe.edges[n][2]
          /\ Differing(probe.vertices[probe.edges[n][1]],
                       probe.vertices[probe.edges[n][2]]) = 1
    /\ \A n, m \in DOMAIN probe.edges : n # m => probe.edges[n] # probe.edges[m]
    /\ \A i, j \in 0..15 :
          (i < j /\ Differing(probe.vertices[i], probe.vertices[j]) = 1) =>
              \E n \in DOMAIN probe.edges : probe.edges[n] = <<i, j>>

\* size / 2, as the generator computes it
HalfOf(size) == Div(size, Rat(2, 1))

\* C2 as stated: for the vertices of a size > 0 the edge list holds exactly 32
\* pairs (i, j) with i < j, each joining two vertices that differ in exactly one
\* coordinate, none repeated, none missing.
C2_EdgesOfPositiveSize ==
    (probe.fn = "edges" /\ Gt(probe.size, Zero)) => EdgesOfHypercube

\* C2 amended: for the vertices of a size whose half size/2 is > 0 the edge
\* list holds exactly 32 pairs (i, j) with i < j, each joining two vertices
\* that differ in exactly one coordinate, none repeated, none missing; for a
\* size > 0 whose half is 0 (Number.MIN_VALUE) the edge list is empty.
C2_EdgesOfPositiveHalfSize ==
    probe.fn = "edges" =>
        /\ Gt(HalfOf(probe.size), Zero) => EdgesOfHypercube
        /\ (Gt(probe.size, Zero) /\ ~Gt(HalfOf(probe.size), Zero)) => Length(probe.edges) = 0

\* The edges of size 3/2: 32 of them, the first joining vertices 0 and 1, and
\* vertices 0 and 8 (which differ in x only) joined.
C2_Witness ==
    /\ probe.fn = "edges"
    /\ probe.size = Rat(3, 2)
    /\ Length(probe.edges) = 32
    /\ probe.edges[0] = <<0, 1>>
    /\ \E n \in DOMAIN probe.edges : probe.edges[n] = <<0, 8>>

\* bit (0 or 1) of index at weight 8, 4, 2 or 1
IndexBit(index, weight) == (index \div weight) % 2

\* the coordinate +h where the bit is 1, -h where it is 0
SignedHalf(bit, h) == IF bit = 1 THEN h ELSE Neg(h)

\* the vertex that the index 8a + 4b + 2c + d stands for, h being half the size
VertexAt(index, h) ==
    Vec4Of(SignedHalf(IndexBit(index, 8), h), SignedHalf(IndexBit(index, 4), h),
           SignedHalf(IndexBit(index, 2), h), SignedHalf(IndexBit(index, 1), h))

\* 16 vectors, every coordinate +size/2 or -size/2, and index 8a + 4b + 2c + d
\* holding (x, y, z, w) with a, b, c, d set where the coordinate is +size/2
VerticesInOrder ==
    \E h \in {HalfOf(probe.size)} :
        /\ DOMAIN probe.vertices = 0..15
        /\ \A n \in 0..15, k \in 0..3 : probe.vertices[n][k] \in {h, Neg(h)}
        /\ \A n \in 0..15 : probe.vertices[n] = VertexAt(n, h)

\* no two of the vectors are equal (a NaN coordinate equals nothing)
VerticesDistinct ==
    \A n, m \in DOMAIN probe.vertices :
        n # m => \E k \in 0..3 : /\ probe.vertices[n][k] # probe.vertices[m][k]
                                 /\ probe.vertices[n][k] # NaN
                                 /\ probe.vertices[m][k] # NaN

\* C3 as stated: for every size the generator yields exactly 16 distinct
\* vectors with every coordinate +size/2 or -size/2, in index order
\* 8a + 4b + 2c + d (w fastest).
C3_Vertices ==
    probe.fn = "vertices" => (VerticesInOrder /\ VerticesDistinct)

\* C3 amended: for every size the generator yields exactly 16 vectors with
\* every coordinate +size/2 or -size/2, in index order 8a + 4b + 2c + d (w
\* fastest); they are distinct exactly when size/2 is neither 0 nor NaN, and
\* for size 0 and size +-Number.MIN_VALUE all 16 are the origin.
C3_VerticesOfNonZeroHalfSize ==
    probe.fn = "vertices" =>
        /\ VerticesInOrder
        /\ VerticesDistinct <=> Sgn(HalfOf(probe.size)) # 0
        /\ probe.size \in {Zero, Tiny(1), Tiny(-1)} =>
              \A n \in 0..15 : probe.vertices[n] = ZeroVec

\* The vertices of size 3: index 5 = 0101b is (-3/2, +3/2, -3/2, +3/2).
C3_Witness ==
    /\ probe.fn = "vertices"
    /\ probe.size = Rat(3, 1)
    /\ probe.vertices[5] = Vec4Of(Rat(-3, 2), Rat(3, 2), Rat(-3, 2), Rat(3, 2))
    /\ VerticesDistinct

ValidAxes(i, j) == i \in 0..3 /\ j \in 0..3 /\ i # j

\* C6: rotationMatrix4 called with an axis index outside 0..3, or with two
\* equal axes, fails fast: it throws and returns no matrix.
C6_InvalidAxesFailFast ==
    (rot.fn # "none" /\ ~ValidAxes(rot.i, rot.j)) => rot.outcome = "threw"

\* C9: for distinct axes a, b in 0..3, rotationMatrix4(a, b, pi/2) applied to
\* the unit vector e_a gives e_b, applied to e_b gives -e_a, and leaves the two
\* other unit vectors unchanged.
C9_QuarterTurn ==
    (rot.fn = "apply" /\ ValidAxes(rot.i, rot.j) /\ rot.angle = Angle(1, 0)) =>
        /\ rot.v = UnitVec(rot.i) => rot.image = UnitVec(rot.j)
        /\ rot.v = UnitVec(rot.j) => rot.image = [k \in 0..3 |-> Neg(UnitVec(rot.i)[k])]
        /\ \A c \in 0..3 \ {rot.i, rot.j} : rot.v = UnitVec(c) => rot.image = UnitVec(c)

\* rotationMatrix4(2, 0, pi/2) applied to e_0: the image is -e_2.
C9_Witness ==
    /\ rot.fn = "apply"
    /\ rot.i = 2
    /\ rot.j = 0
    /\ rot.angle = Angle(1, 0)
    /\ rot.v = UnitVec(0)
    /\ rot.image = Vec4Of(Zero, Zero, Rat(-1, 1), Zero)

\* ------------------------------------------------------------------------
\* Properties: orientation and observer
\* ------------------------------------------------------------------------

Dot(u, v) ==
    Add(Add(Add(Mul(u[0], v[0]), Mul(u[1], v[1])), Mul(u[2], v[2])), Mul(u[3], v[3]))

\* row r of a row-major 4x4 matrix
RowOf(M, r) == [k \in 0..3 |-> M[r*4 + k]]

\* rows of unit length and mutually perpendicular
Orthonormal(M) ==
    /\ DOMAIN M = 0..15
    /\ \A r1, r2 \in 0..3 : Dot(RowOf(M, r1), RowOf(M, r2)) = IF r1 = r2 THEN One ELSE Zero

\* vectors on which the norm of the image is compared with the norm
NormSamples ==
    {UnitVec(axis) : axis \in 0..3}
        \cup {Vec4Of(One, One, Zero, Rat(-1, 1)), Vec4Of(Rat(1, 2), Zero, Rat(-1, 1), Zero)}

LastR1 == rotationMatrix4(0, IF lastDrag.shift THEN 3 ELSE 1, MouseAngle(lastDrag.dx))

\* the vertical-delta rotation of the latest drag: plane X-Z, or Y-W with shift
LastR2 ==
    rotationMatrix4(IF lastDrag.shift THEN 1 ELSE 0, IF lastDrag.shift THEN 3 ELSE 2,
                    MouseAngle(lastDrag.dy))

\* C10: a drag with horizontal angle a and vertical angle b replaces the
\* orientation M by (R2(b) * R1(a)) * M, with and without shift, so that the
\* orientation after the drag sends v to R2 (R1 (M v)).
C10_DragConvention ==
    lastDrag.valid =>
        \E r1 \in {LastR1}, r2 \in {LastR2}, v \in {Vec4Of(One, One, Zero, Rat(-1, 1))} :
            /\ rotationMat = mat4Multiply(mat4Multiply(r2, r1), lastDrag.from)
            /\ applyMat4ToVec4(rotationMat, v) =
                  applyMat4ToVec4(r2, applyMat4ToVec4(r1, applyMat4ToVec4(lastDrag.from, v)))

\* A drag with shift, on an orientation already turned, where the three
\* conventions give three different matrices.
C10_Witness ==
    /\ lastDrag.valid
    /\ lastDrag.shift
    /\ lastDrag.from # mat4Identity
    /\ \E r1 \in {LastR1}, r2 \in {LastR2} :
          /\ rotationMat # mat4Multiply(lastDrag.from, mat4Multiply(r2, r1))
          /\ rotationMat # mat4Multiply(mat4Multiply(r1, r2), lastDrag.from)

\* C5: the orientation and the observer position change only in a frame tick:
\* a step that changes either of them is a run of the frame loop.
C5_UpdatedOnlyByFrame ==
    [][(rotationMat' # rotationMat \/ camera4D' # camera4D) => frames' = frames + 1]_vars

\* C8: there is a bound N, below the number of drags explored, such that the
\* number of rotations folded into the orientation since the last
\* re-orthonormalization, startup or reset never exceeds N.
C8_BoundedCadence ==
    \E N \in 0..(MaxCompositions - 1) : compositions <= N

\* C7: every component of the orientation matrix and of the observer position
\* is finite, also after drags and frames whose pointer coordinates or clock
\* readings are NaN or infinite.
C7_StateStaysFinite ==
    /\ \A x \in DOMAIN rotationMat : IsFinite(rotationMat[x])
    /\ \A k \in 0..3 : IsFinite(camera4D[k])

\* exactly one of two opposite keys is down
OneOf(k1, k2) == (k1 /\ ~k2) \/ (k2 /\ ~k1)

\* the displacement from u to v, in units of the step length
ScaledStep(u, v, step) == ArrayValue([k \in 0..3 |-> Div(Sub(v[k], u[k]), step)])

\* C4: in a frame where one of forward/back and one of strafe left/right are
\* active together and the orientation is orthonormal, the observer is
\* displaced by exactly moveSpeed*dt (the displacement divided by moveSpeed*dt
\* is a vector of squared length 1), and so it is in a frame with a single
\* active intent.
C4_DiagonalMoveDistance ==
    [][(/\ frames' = frames + 1
        /\ OneOf(keyState.w, keyState.s) \/ OneOf(keyState.a, keyState.d)
        /\ Orthonormal(rotationMat))
       => \E u \in {ScaledStep(camera4D, camera4D', Mul(moveSpeed, FrameDt(lastTime', lastTime)))} :
             Dot(u, u) = One]_vars

\* After a frame with forward and strafe-right under a turned orientation: the
\* observer has left the x-z plane, its coordinates are multiples of sqrt 2,
\* and it is at distance moveSpeed * 0.05 from where it started.
C4_Witness ==
    /\ frames = 1
    /\ compositions = 1
    /\ keyState = [w |-> TRUE, a |-> FALSE, s |-> FALSE, d |-> TRUE]
    /\ camera4D[1] # Zero
    /\ \E k \in 0..3 : camera4D[k].r # 0
    /\ \E u \in {ScaledStep(ZeroVec, camera4D, Mul(moveSpeed, MaxDt))} : Dot(u, u) = One

====
